---- MODULE Spec2Model ----
(***************************************************************************)
(* A model of audec: format sniffing and dispatch (src/src/lib.rs) and the *)
(* parallel decompression bridge (src/src/parallel.rs).                    *)
(*                                                                         *)
(* Two state machines share this module.                                   *)
(*   Spec / FairSpec / LiveSpec :                                         *)
(*                     ParDecompressor, i.e. the worker thread spawned by  *)
(*                     ParDecompressor::new, the mpsc channel, and the     *)
(*                     consumer calling ParDecompressor::read.             *)
(*   SniffSpec       : guess_compression_format / decompress_as /          *)
(*                     auto_decompress applied to a buffered source, and   *)
(*                     the returned reader read to its end.                *)
(***************************************************************************)
EXTENDS Integers, Sequences, FiniteSets, TLC

\* ------------------------------------------------------------------ bounds
\* Longest decoder script: the number of fills before the decoder's tail.
MaxScript == 3
\* Longest buffer one decoder fill returns.
MaxChunkLen == 2
\* Largest destination slice the consumer passes to read.
MaxRead == 2
\* State-space cap on the messages in transit. It is larger than the number
\* of messages any terminating script produces, so it only ever stops the
\* worker of a decoder that reports errors for ever.
MaxInFlight == 5

Min(a, b) == IF a <= b THEN a ELSE b

\* ------------------------------------------------------------- the state
\* The state of the bridge.
VARIABLES
    script,         \* the decoder: what each successive fill_buf returns
    after,          \* ... and what it returns once the script is used up
    fillIdx,        \* fills of the script already taken
    cursor,         \* bytes of decoder output consumed (r.consume)
    wpc,            \* worker thread: "fill", "send" or "done"
    read,           \* the worker's local `read`, the message it will send
    r_decompressed, \* the channel: messages sent and not yet received
    rxAlive,        \* the ParDecompressor (and so the Receiver) still exists
    buf,            \* ParDecompressor.buf
    pos,            \* ParDecompressor.pos
    cpc,            \* consumer: "idle", or "recv" when blocked in recv()
    req,            \* buf.len() of the destination of the read in progress
    out,            \* history: every byte read has returned, in order
    ret,            \* history: what the last completed read returned
    errsReturned,   \* history: reads that returned Err (saturates at 2)
    errSent,        \* history: the worker has put an Err on the channel
    received,       \* history: the consumer has received a message
    sendFailed,     \* history: a send found the receiver gone
    weof,           \* history: the worker saw a zero-byte fill
    sentBytes,      \* history: the chunks put on the channel, concatenated
    eosReads        \* history: reads that found the channel closed (max 2)

bridgeVars == <<script, after, fillIdx, cursor, wpc, read, r_decompressed,
                rxAlive, buf, pos, cpc, req, out, ret, errsReturned, errSent,
                received, sendFailed, weof, sentBytes, eosReads>>

\* The state of the sniffing and dispatch machine.
VARIABLES
    features,   \* the cargo features the crate was built with
    input,      \* everything the source holds when it is created
    src,        \* the BufRead source r handed to the library
    src0,       \* history: the source as it was when the library was called
    rd,         \* the reader the caller reads from (Box<dyn BufRead>)
    peeked,     \* history: what fill_buf returned to the sniffer
    guessed,    \* history: the format tag, as guess_compression_format
                \* returned it or as the caller gave it to decompress_as
    call,       \* history: the function called: "none", "guess", "auto", "as"
    spc,        \* "fresh", "sniffed", "dispatched", "panicked", "end", "failed"
    sout,       \* history: the bytes read since the library was called
    fed         \* the bytes a decoder has taken from its source

sniffVars == <<features, input, src, src0, rd, peeked, guessed, call, spc,
               sout, fed>>

vars == <<bridgeVars, sniffVars>>

\* The byte at (1-based) offset i of the decoder's output. Neither the worker
\* nor the consumer inspects byte values, so the stream is taken to be
\* 1, 2, 3, ...: every lost, repeated or reordered byte then shows.
ByteAt(i) == i % 256

Bytes(from, n) == [k \in 1..n |-> ByteAt(from + k)]

\* What one fill_buf of the decoder can return: a non-empty buffer of len
\* bytes, or an I/O error.
FillData(n) == [err |-> FALSE, len |-> n]
FillErr == [err |-> TRUE, len |-> 0]
FillOutcomes == {FillData(n) : n \in 1..MaxChunkLen} \cup {FillErr}

RECURSIVE SeqsUpTo(_, _)
SeqsUpTo(S, n) ==
    IF n = 0 THEN {<<>>}
    ELSE LET shorter == SeqsUpTo(S, n - 1)
         IN shorter \cup {Append(s, x) : s \in {t \in shorter : Len(t) = n - 1}, x \in S}

Scripts == SeqsUpTo(FillOutcomes, MaxScript)

\* Result<Vec<u8>, io::Error>, the channel's message type.
Ok(bytes) == [ok |-> TRUE, bytes |-> bytes]
Err == [ok |-> FALSE, bytes |-> <<>>]

\* r.fill_buf() on the decoder: Ok(bytes), where <<>> is end of stream, or Err.
FillBuf(scr, aft, idx, cur) ==
    IF idx < Len(scr)
    THEN IF scr[idx + 1].err THEN Err ELSE Ok(Bytes(cur, scr[idx + 1].len))
    ELSE IF aft = "err" THEN Err ELSE Ok(<<>>)

\* The script position after a fill that returned res and (for data) the
\* consume that follows: an error is used up by being reported, a buffer by
\* consume(len); the tail repeats.
NextFill(scr, idx) == IF idx < Len(scr) THEN idx + 1 ELSE idx

\* Worker loop, lines 28-41: the value of `read` for a fill that did not
\* break out of the loop. buf.to_vec() copies the whole filled buffer.
ReadOf(res) == IF res.ok THEN Ok(res.bytes) ELSE Err

\* Lines 29-32: the fill that ends the worker's loop, Ok of an empty buffer.
IsEndOfStreamNever(res) == FALSE
IsEndOfStream(res) == res.ok /\ res.bytes = <<>>

\* Lines 28-42: where the worker goes with the result of a fill that did not
\* end the loop. Both arms of the match fall through to the send.
AfterFillDroppingErr(res) == IF res.ok THEN "send" ELSE "fill"
AfterFill(res) == "send"

\* Line 36: r.consume(res.len()).
ConsumeOne(cur, res) == cur + 1
Consume(cur, res) == cur + Len(res.bytes)

\* Lines 42-45: where the worker goes after w_decompressed.send(read).
AfterSendIgnoringFailure(sendOk, msg) == "fill"
AfterSend(sendOk, msg) == IF sendOk THEN "fill" ELSE "done"

\* Lines 58-62: the kind of result read returns, with length 0, when recv()
\* fails (all senders gone and the channel empty): Ok(0).
OnRecvClosedErr == "err"
OnRecvClosed == "ok"

\* Line 58: the test that sends read to the channel, self.pos >= buf.len().
ExhaustedOneEarly(b, p) == p + 1 >= Len(b)
Exhausted(b, p) == p >= Len(b)

\* Line 63, self.buf = buf?: the chunk kept when the message is an Err. The
\* `?` returns before the assignment.
BufAfterErrCleared(b) == <<>>
BufAfterErr(b) == b

\* Lines 59-62: the cursor when recv() fails. The return comes before the
\* reset of line 65.
PosAfterClosedReset(p) == 0
PosAfterClosed(p) == p

\* Line 67: the number of bytes one read copies.
CopyLen(n, b, p) == Min(n, Len(b) - p)

\* Line 65: the cursor after a chunk has been received.
PosAfterRecvStale(p) == p
PosAfterRecv(p) == 0

Return(kind, n, want) == [kind |-> kind, len |-> n, req |-> want]

BridgeInit ==
    /\ script \in Scripts
    /\ after \in {"eof", "err"}
    /\ fillIdx = 0
    /\ cursor = 0
    /\ wpc = "fill"
    /\ read = Err
    /\ r_decompressed = <<>>
    /\ rxAlive = TRUE
    /\ buf = <<>>
    /\ pos = 0
    /\ cpc = "idle"
    /\ req = 0
    /\ out = <<>>
    /\ ret = Return("none", 0, 0)
    /\ errsReturned = 0
    /\ errSent = FALSE
    /\ received = FALSE
    /\ sendFailed = FALSE
    /\ weof = FALSE
    /\ sentBytes = <<>>
    /\ eosReads = 0

\* One pass of the worker loop up to the send: lines 28-41.
WorkerFill ==
    /\ wpc = "fill"
    /\ LET res == FillBuf(script, after, fillIdx, cursor)
       IN IF IsEndOfStream(res)
          THEN /\ wpc' = "done"
               /\ weof' = TRUE
               /\ UNCHANGED <<read, cursor, fillIdx>>
          ELSE /\ read' = ReadOf(res)
               /\ cursor' = IF res.ok THEN Consume(cursor, res) ELSE cursor
               /\ fillIdx' = NextFill(script, fillIdx)
               /\ wpc' = AfterFill(res)
               /\ weof' = FALSE
    /\ UNCHANGED <<script, after, r_decompressed, rxAlive, buf, pos, cpc, req,
                   out, ret, errsReturned, errSent, received, sendFailed,
                   sentBytes, eosReads>>
    /\ UNCHANGED sniffVars

\* w_decompressed.send(read) and the test of its result: lines 42-45. The
\* channel is std::sync::mpsc::channel(): a send never blocks, and fails only
\* when the Receiver has been dropped.
WorkerSend ==
    /\ wpc = "send"
    /\ rxAlive => Len(r_decompressed) < MaxInFlight
    /\ r_decompressed' = IF rxAlive THEN Append(r_decompressed, read)
                         ELSE r_decompressed
    /\ wpc' = AfterSend(rxAlive, read)
    /\ errSent' = (errSent \/ (rxAlive /\ ~read.ok))
    /\ sendFailed' = (sendFailed \/ ~rxAlive)
    /\ sentBytes' = IF rxAlive THEN sentBytes \o read.bytes ELSE sentBytes
    /\ UNCHANGED <<script, after, fillIdx, cursor, read, rxAlive, buf, pos,
                   cpc, req, out, ret, errsReturned, received, weof, eosReads>>
    /\ UNCHANGED sniffVars

\* The copy at the end of read, lines 67-71, from chunk b at cursor p.
CopyOut(n, b, p) ==
    LET len == CopyLen(n, b, p)
    IN /\ out' = out \o SubSeq(b, p + 1, p + len)
       /\ pos' = p + len
       /\ ret' = Return("ok", len, n)

\* ParDecompressor::read with a destination of n bytes, up to the point
\* where it either returns or blocks in recv(): lines 57-59 and 67-71.
ReadCall(n) ==
    /\ cpc = "idle"
    /\ rxAlive
    /\ IF Exhausted(buf, pos)
       THEN /\ cpc' = "recv"
            /\ req' = n
            /\ UNCHANGED <<out, pos, ret>>
       ELSE /\ CopyOut(n, buf, pos)
            /\ UNCHANGED <<cpc, req>>
    /\ UNCHANGED <<script, after, fillIdx, cursor, wpc, read, r_decompressed,
                   rxAlive, buf, errsReturned, errSent, received, sendFailed,
                   weof, sentBytes, eosReads>>
    /\ UNCHANGED sniffVars

\* recv() returns a message: lines 59 and 63-71.
RecvMessage ==
    /\ cpc = "recv"
    /\ r_decompressed # <<>>
    /\ LET msg == Head(r_decompressed)
       IN /\ r_decompressed' = Tail(r_decompressed)
          /\ received' = TRUE
          /\ cpc' = "idle"
          /\ IF msg.ok
             THEN /\ buf' = msg.bytes
                  /\ CopyOut(req, msg.bytes, PosAfterRecv(pos))
                  /\ UNCHANGED errsReturned
             ELSE /\ ret' = Return("err", 0, req)
                  /\ errsReturned' = Min(errsReturned + 1, 2)
                  /\ buf' = BufAfterErr(buf)
                  /\ UNCHANGED <<pos, out>>
    /\ UNCHANGED <<script, after, fillIdx, cursor, wpc, read, rxAlive, req,
                   errSent, sendFailed, weof, sentBytes, eosReads>>
    /\ UNCHANGED sniffVars

\* recv() fails because the worker has exited, dropping the only Sender, and
\* nothing is left in the channel: lines 59-62.
RecvClosed ==
    /\ cpc = "recv"
    /\ r_decompressed = <<>>
    /\ wpc = "done"
    /\ cpc' = "idle"
    /\ ret' = Return(OnRecvClosed, 0, req)
    /\ errsReturned' = IF OnRecvClosed = "err" THEN Min(errsReturned + 1, 2)
                       ELSE errsReturned
    /\ pos' = PosAfterClosed(pos)
    /\ eosReads' = Min(eosReads + 1, 2)
    /\ UNCHANGED <<script, after, fillIdx, cursor, wpc, read, r_decompressed,
                   rxAlive, buf, req, out, errSent, received, sendFailed,
                   weof, sentBytes>>
    /\ UNCHANGED sniffVars

\* The caller drops the ParDecompressor between two reads; the Receiver goes
\* with it, and the messages still queued are discarded.
DropReceiver ==
    /\ cpc = "idle"
    /\ rxAlive
    /\ rxAlive' = FALSE
    /\ r_decompressed' = <<>>
    /\ UNCHANGED <<script, after, fillIdx, cursor, wpc, read, buf, pos, cpc,
                   req, out, ret, errsReturned, errSent, received, sendFailed,
                   weof, sentBytes, eosReads>>
    /\ UNCHANGED sniffVars

BridgeNext ==
    \/ WorkerFill
    \/ WorkerSend
    \/ \E n \in 0..MaxRead : ReadCall(n)
    \/ RecvMessage
    \/ RecvClosed
    \/ DropReceiver

\* ------------------------------------------------------ bridge: claims
\* Reading the decoder on the caller's own thread until it ends or fails:
\* the bytes of every fill up to the first empty fill or the first error.
RECURSIVE SyncRead(_, _, _)
SyncRead(idx, cur, acc) ==
    LET res == FillBuf(script, after, idx, cur)
    IN IF ~res.ok \/ res.bytes = <<>> THEN acc
       ELSE SyncRead(NextFill(script, idx), cur + Len(res.bytes), acc \o res.bytes)

SyncOutput == SyncRead(0, 0, <<>>)

\* The decoder never fails: non-empty fills, then a clean end of stream.
ErrorFree == after = "eof" /\ \A i \in 1..Len(script) : ~script[i].err

IsPrefix(s, t) == Len(s) <= Len(t) /\ SubSeq(t, 1, Len(s)) = s

\* The last read returned Ok(0).
ZeroLengthRead == ret.kind = "ok" /\ ret.len = 0

\* C1: for a decoder that never fails, under every interleaving and every
\* sequence of read sizes, what the reads have returned so far is an initial
\* part of the synchronous output, and when a read into a non-empty
\* destination returns Ok(0) it is the whole of it, byte for byte.
C1_ParallelEqualsSync ==
    ErrorFree =>
        /\ IsPrefix(out, SyncOutput)
        /\ (ZeroLengthRead /\ ret.req >= 1) => out = SyncOutput

C1_Witness ==
    /\ ErrorFree
    /\ ZeroLengthRead /\ ret.req >= 1
    /\ Len(script) >= 2
    /\ Len(out) >= 3

\* C2: the channel is bounded, so that a consumer that has received nothing
\* cannot have the whole of the longest stream waiting in the channel while
\* the worker runs on.
C2_BoundedChannel ==
    (~received /\ after = "eof" /\ Len(script) = MaxScript)
        => Len(r_decompressed) < MaxScript

\* C3: once the worker has put an error on the channel it has exited: it
\* takes no further step (no fill, no send) and the channel gets no further
\* message.
C3_ErrorSentOnceThenExit ==
    [][errSent =>
        /\ wpc' = wpc /\ read' = read /\ fillIdx' = fillIdx
        /\ Len(r_decompressed') <= Len(r_decompressed)]_vars

\* C4: the read that returns the first error comes after exactly the bytes
\* the decoder produced before it failed, and no read after it returns data
\* or another error.
C4_ErrorSurfacedOnce ==
    [][/\ (errsReturned = 0 /\ errsReturned' >= 1) => out' = SyncOutput
       /\ errsReturned >= 1 => (out' = out /\ errsReturned' = errsReturned)]_vars

\* C5: once the receiver is gone the worker's next send fails and ends the
\* worker; a failed send puts nothing on the channel and produces no error;
\* and under fair scheduling of the worker it does terminate.
C5_DropTerminatesWorker ==
    /\ [][/\ (~rxAlive /\ wpc = "send" /\ wpc' # wpc) => (wpc' = "done" /\ sendFailed')
          /\ sendFailed' =>
                /\ wpc' = "done"
                /\ errSent' = errSent
                /\ r_decompressed' = r_decompressed]_vars
    /\ (~rxAlive ~> wpc = "done")

C5_Witness == ~rxAlive /\ sendFailed /\ wpc = "done" /\ ~weof /\ cursor >= 1

\* C6: a zero-byte fill ends the worker without a further message, and a
\* read that then finds the channel empty and closed returns Ok(0), not an
\* error.
C6_CleanEndOfStream ==
    [][/\ weof' => (wpc' = "done" /\ Len(r_decompressed') <= Len(r_decompressed))
       /\ (weof /\ cpc = "recv" /\ r_decompressed = <<>> /\ cpc' = "idle")
            => (ret'.kind = "ok" /\ ret'.len = 0 /\ errsReturned' = errsReturned)]_vars

C6_Witness == weof /\ received /\ ZeroLengthRead /\ ret.req >= 1 /\ cpc = "idle"

\* The bytes a step appends to what the reads have returned.
Delivered == SubSeq(out', Len(out) + 1, Len(out'))

\* C14: a read that returns data returns exactly min(requested length, bytes
\* left in the current chunk) bytes, taken from the current chunk at the
\* cursor, and advances the cursor by that amount; the bytes of one read all
\* come from one chunk (the held one, or the one just received), and read
\* receives from the channel only when the held chunk is fully drained.
C14_ReadCopiesWithinChunk ==
    /\ [](cpc = "recv" => pos >= Len(buf))
    /\ [][out' # out =>
            LET fromChannel == cpc = "recv"
                chunk == IF fromChannel THEN Head(r_decompressed).bytes ELSE buf
                start == IF fromChannel THEN 0 ELSE pos
                k == Len(out') - Len(out)
            IN /\ fromChannel => pos >= Len(buf)
               /\ ~fromChannel => r_decompressed' = r_decompressed
               /\ fromChannel => ret'.req = req
               /\ buf' = chunk
               /\ k = Min(ret'.req, Len(chunk) - start)
               /\ ret' = Return("ok", k, ret'.req)
               /\ Delivered = SubSeq(chunk, start + 1, start + k)
               /\ pos' = start + k]_vars

C14_Witness ==
    /\ Len(buf) = 2 /\ pos = 2
    /\ ret = Return("ok", 1, 2)
    /\ r_decompressed # <<>>
    /\ Len(out) = 3

\* What the worker has filled and consumed but not put on the channel: the
\* chunk it is about to send, or the one whose send found the receiver gone.
Pending == IF wpc = "send" \/ sendFailed THEN read.bytes ELSE <<>>

\* C15 as stated: in every reachable state the chunks sent so far,
\* concatenated, are the decoder's output up to the decoder's cursor.
C15_SentEqualsConsumed == sentBytes = Bytes(0, cursor)

\* C15 amended: the chunks sent so far, followed by the chunk the worker has
\* consumed and not sent (not yet, or never because the send failed), are
\* the decoder's output up to the decoder's cursor; what is sent is never
\* more than what is consumed.
C15_SentPlusPendingEqualsConsumed ==
    /\ sentBytes \o Pending = Bytes(0, cursor)
    /\ wpc = "send" /\ read.ok => read.bytes # <<>>

C15_Witness ==
    /\ Len(sentBytes) >= 3
    /\ wpc = "send" /\ read.ok
    /\ sentBytes # Bytes(0, cursor)

\* C16: no data message in transit is empty, and a read into a non-empty
\* destination returns Ok(0) only when the worker has exited and everything
\* it sent has been received: no message is in transit and no byte of the
\* held chunk is left.
C16_NoEmptyChunk ==
    /\ \A i \in 1..Len(r_decompressed) :
          r_decompressed[i].ok => Len(r_decompressed[i].bytes) >= 1
    /\ wpc = "send" /\ read.ok => Len(read.bytes) >= 1
    /\ (ret.kind = "ok" /\ ret.len = 0 /\ ret.req >= 1) =>
          /\ wpc = "done"
          /\ r_decompressed = <<>>
          /\ pos >= Len(buf)
          /\ eosReads >= 1

C16_Witness ==
    /\ ret = Return("ok", 0, 2)
    /\ Len(out) >= 2
    /\ wpc = "done" /\ weof

\* C17: a read blocked in recv() eventually returns, when the worker thread
\* is scheduled and recv() returns once it can.
C17_ReadReturns == (cpc = "recv") ~> (cpc = "idle")

C17_Witness ==
    /\ cpc = "recv"
    /\ r_decompressed = <<>>
    /\ wpc = "fill"
    /\ received

\* C18: once a read has returned Ok(0) because the channel was closed and
\* drained, no later read returns data or an error: every step leaves the
\* bytes returned and the errors returned as they are, and the last result
\* stays Ok(0).
C18_EndOfStreamSticky ==
    [][eosReads >= 1 =>
          /\ out' = out
          /\ errsReturned' = errsReturned
          /\ ret'.kind = "ok" /\ ret'.len = 0
          /\ cpc' = "idle" /\ cpc = "recv" => eosReads' = Min(eosReads + 1, 2)]_vars

C18_Witness ==
    /\ eosReads = 2
    /\ out # <<>>
    /\ cpc = "idle"

\* C19: 0 <= pos <= len(buf) in every reachable state, and a read that
\* returns end-of-stream or an error leaves buf and pos as they were.
C19_CursorWithinChunk ==
    /\ [](pos \in 0..Len(buf))
    /\ [][(cpc = "recv" /\ cpc' = "idle"
            /\ (r_decompressed = <<>> \/ ~Head(r_decompressed).ok)) =>
          (buf' = buf /\ pos' = pos)]_vars

C19_Witness ==
    /\ errsReturned >= 1
    /\ eosReads >= 1
    /\ Len(buf) = 2 /\ pos = 2

\* ------------------------------------------------- sniffing and dispatch
\* Longest run of bytes that follows the leading bytes of a sniffed input.
MaxTail == 1
\* Most bytes one read of the underlying reader moves into the buffer.
BufCap == 3
\* Reads of the underlying reader after which it stops failing.
MaxFailAt == 2


Features == {"bzip2", "flate2", "lz4", "lz4_flex", "zstd"}

\* The builds considered: no backend, the default features, and every
\* backend with either lz4 implementation. Lines 37-38: lz4 and lz4_flex
\* together do not compile.
Builds ==
    {f \in {{}, {"flate2", "zstd"}, Features \ {"lz4_flex"}, Features \ {"lz4"}} :
        ~({"lz4", "lz4_flex"} \subseteq f)}

\* Lines 97-106.
CompressionFormat == {"Deflate", "Bzip2", "Lz4", "Zstd"}
None == "None"

MagicShortBzip2(f) ==
    CASE f = "Bzip2" -> <<66, 90>>
      [] f = "Deflate" -> <<31, 139>>
      [] f = "Lz4" -> <<4, 34, 77, 24>>
      [] f = "Zstd" -> <<40, 181, 47, 253>>

\* The slice patterns of the match arms, lines 120-123.
Magic(f) ==
    CASE f = "Bzip2" -> <<66, 90, 104>>
      [] f = "Deflate" -> <<31, 139>>
      [] f = "Lz4" -> <<4, 34, 77, 24>>
      [] f = "Zstd" -> <<40, 181, 47, 253>>

\* The order of the match arms, lines 120-123.
ArmOrder == <<"Bzip2", "Deflate", "Lz4", "Zstd">>

ArmMatchesFirstByte(f, bytes) ==
    Len(bytes) >= 1 /\ bytes[1] = Magic(f)[1]

ArmMatchesPartial(f, bytes) ==
    LET n == Min(Len(bytes), Len(Magic(f)))
    IN n >= 1 /\ SubSeq(bytes, 1, n) = SubSeq(Magic(f), 1, n)

\* A slice pattern [b1, ..., bk, ..] matches the slices of at least k bytes
\* whose first k bytes are b1..bk.
ArmMatches(f, bytes) ==
    /\ Len(bytes) >= Len(Magic(f))
    /\ SubSeq(bytes, 1, Len(Magic(f))) = Magic(f)

\* match bytes { ... }: the first arm, in the order given, that matches;
\* the wildcard arm gives None. Lines 119-125.
RECURSIVE MatchArms(_, _)
MatchArms(order, bytes) ==
    IF order = <<>> THEN None
    ELSE IF ArmMatches(Head(order), bytes) THEN Head(order)
    ELSE MatchArms(Tail(order), bytes)

\* A BufRead source: the bytes buffered and not yet consumed (window), the
\* bytes the underlying reader has still to deliver (inner), the read
\* position (consumed) and the reads of the underlying reader made so far.
Source(window, inner) ==
    [window |-> window, inner |-> inner, consumed |-> 0, reads |-> 0]

\* Everything a source will still deliver.
Content(s) == s.window \o s.inner

\* What one read of the underlying reader can do: fail, or deliver n bytes
\* (0 only at its end).
ReadFails == [err |-> TRUE, n |-> 0]
ReadGives(n) == [err |-> FALSE, n |-> n]
InnerReads(s) ==
    (IF s.reads < MaxFailAt THEN {ReadFails} ELSE {}) \cup
    (IF s.inner = <<>> THEN {ReadGives(0)}
     ELSE {ReadGives(n) : n \in 1..Min(BufCap, Len(s.inner))})

\* The read fill_buf makes of the underlying reader, and the fill_buf that
\* makes it even when bytes are buffered.
ReadInner(s, o) ==
    IF o.err
    THEN [res |-> Err, src |-> [s EXCEPT !.reads = @ + 1]]
    ELSE LET got == SubSeq(s.inner, 1, o.n)
         IN [res |-> Ok(s.window \o got),
             src |-> [s EXCEPT !.window = @ \o got,
                               !.inner = SubSeq(s.inner, o.n + 1, Len(s.inner)),
                               !.reads = @ + 1]]

fill_buf_always_reads(s, o) == ReadInner(s, o)

\* BufRead::fill_buf as line 116 and the readers call it: the buffered
\* bytes if there are any, otherwise one read o of the underlying reader
\* into the buffer. Nothing is consumed either way.
fill_buf(s, o) ==
    IF s.window # <<>>
    THEN [res |-> Ok(s.window), src |-> s]
    ELSE ReadInner(s, o)

\* BufRead::consume(n).
consume(s, n) ==
    [s EXCEPT !.window = SubSeq(s.window, n + 1, Len(s.window)),
              !.consumed = @ + n]

guess_consuming_magic(s, o) ==
    LET f == fill_buf(s, o)
        format == IF f.res.ok THEN MatchArms(ArmOrder, f.res.bytes) ELSE None
    IN [format |-> format,
        peek |-> f.res,
        src |-> IF format = None THEN f.src
                ELSE consume(f.src, Len(Magic(format)))]

\* Lines 113-126. o is what the underlying reader does if fill_buf reads it.
guess_compression_format(s, o) ==
    LET f == fill_buf(s, o)
    IN [format |-> IF f.res.ok THEN MatchArms(ArmOrder, f.res.bytes) ELSE None,
        peek |-> f.res,
        src |-> f.src]

\* Box::new(r): the source itself.
Passthrough(r) == [kind |-> "source", codec |-> "none", src |-> r]

\* Box::new(BufReader::new(<decoder>::new(r))).
Decoder(codec, r) == [kind |-> "decoder", codec |-> codec, src |-> r]

\* What a decoder's constructor can return. lz4::Decoder::new and
\* zstd::stream::Decoder::new return an io::Result (lines 75 and 85); the
\* other constructors return the decoder itself.
CtorOutcomes == {"ok", "err"}

\* <decoder>::new(r).unwrap(), lines 75 and 85: the decoder, or a panic when
\* the constructor returned Err.
Unwrap(ctor, codec, r) ==
    IF ctor = "ok" THEN Decoder(codec, r)
    ELSE [kind |-> "panic", codec |-> codec, src |-> r]

\* Lines 55-93, built with the features feat. ctor is what the decoder's
\* constructor returns where it can fail.
decompress_as(r, format, feat, ctor) ==
    CASE format = "Bzip2" /\ "bzip2" \in feat -> Decoder("bzip2", r)
      [] format = "Deflate" /\ "flate2" \in feat -> Decoder("flate2", r)
      [] format = "Lz4" /\ "lz4" \in feat -> Unwrap(ctor, "lz4", r)
      [] format = "Lz4" /\ "lz4_flex" \in feat -> Decoder("lz4_flex", r)
      [] format = "Zstd" /\ "zstd" \in feat -> Unwrap(ctor, "zstd", r)
      [] OTHER -> Passthrough(r)

\* Lines 47-52.
auto_decompress(r, o, feat, ctor) ==
    LET g == guess_compression_format(r, o)
    IN [reader |-> IF g.format = None THEN Passthrough(g.src)
                   ELSE decompress_as(g.src, g.format, feat, ctor),
        format |-> g.format,
        peek |-> g.peek]

\* The codecs are libraries outside this crate. The model keeps of them that
\* a stream is a frame header followed by a payload: the header is the
\* format's magic number (the first bytes of the test vectors, lines 135-175),
\* a decoder rejects a stream that does not start with it, the header alone
\* is the encoding of the empty payload, and the bytes after it stand for
\* the payload.
FrameHeader(codec) ==
    CASE codec = "bzip2" -> <<66, 90, 104>>
      [] codec = "flate2" -> <<31, 139>>
      [] codec \in {"lz4", "lz4_flex"} -> <<4, 34, 77, 24>>
      [] codec = "zstd" -> <<40, 181, 47, 253>>

\* What the decoder knows of its header after taking the bytes taken:
\* "good" (all of it seen), "bad" (a byte differs) or "partial".
HeaderState(codec, taken) ==
    LET h == FrameHeader(codec)
        n == Min(Len(taken), Len(h))
    IN IF SubSeq(taken, 1, n) # SubSeq(h, 1, n) THEN "bad"
       ELSE IF n = Len(h) THEN "good" ELSE "partial"

\* The payload of a stream whose header is good.
Payload(codec, stream) ==
    SubSeq(stream, Len(FrameHeader(codec)) + 1, Len(stream))

\* The inputs: every initial part of every magic prefix (the empty one
\* included), and every splice of the start of one prefix with the rest of
\* another, each followed by up to MaxTail other bytes.
TailBytes == {0, 66}
Take(s, n) == SubSeq(s, 1, Min(n, Len(s)))
Drop(s, n) == SubSeq(s, n + 1, Len(s))
Heads ==
    {Take(Magic(f), n) \o Drop(Magic(g), n) :
        f \in CompressionFormat, g \in CompressionFormat, n \in 0..4}
    \cup {Take(Magic(f), n) : f \in CompressionFormat, n \in 0..4}
Inputs == {h \o t : h \in Heads, t \in SeqsUpTo(TailBytes, MaxTail)}

SniffInit ==
    /\ features \in Builds
    /\ input \in Inputs
    /\ \E n \in 0..Len(input) : src = Source(Take(input, n), Drop(input, n))
    /\ src0 = src
    /\ rd = Passthrough(src)
    /\ peeked = Err
    /\ guessed = None
    /\ call = "none"
    /\ spc = "fresh"
    /\ sout = <<>>
    /\ fed = <<>>

\* The caller sniffs the source it holds: guess_compression_format(&mut r).
Guess ==
    /\ spc = "fresh"
    /\ \E o \in InnerReads(src) :
        LET g == guess_compression_format(src, o)
        IN /\ src' = g.src
           /\ rd' = Passthrough(g.src)
           /\ peeked' = g.peek
           /\ guessed' = g.format
    /\ src0' = src
    /\ sout' = <<>>
    /\ spc' = "sniffed"
    /\ call' = "guess"
    /\ UNCHANGED <<features, input, fed>>
    /\ UNCHANGED bridgeVars

\* The caller hands the source to auto_decompress(r).
AutoDecompress ==
    /\ spc = "fresh"
    /\ \E o \in InnerReads(src), ctor \in CtorOutcomes :
        LET a == auto_decompress(src, o, features, ctor)
        IN /\ rd' = a.reader
           /\ src' = a.reader.src
           /\ peeked' = a.peek
           /\ guessed' = a.format
           /\ spc' = IF a.reader.kind = "panic" THEN "panicked" ELSE "dispatched"
    /\ src0' = src
    /\ sout' = <<>>
    /\ call' = "auto"
    /\ UNCHANGED <<features, input, fed>>
    /\ UNCHANGED bridgeVars

\* The caller names the format itself: decompress_as(r, format).
DecompressAs ==
    /\ spc = "fresh"
    /\ \E format \in CompressionFormat, ctor \in CtorOutcomes :
        LET reader == decompress_as(src, format, features, ctor)
        IN /\ rd' = reader
           /\ src' = reader.src
           /\ guessed' = format
           /\ spc' = IF reader.kind = "panic" THEN "panicked" ELSE "dispatched"
    /\ src0' = src
    /\ sout' = <<>>
    /\ call' = "as"
    /\ UNCHANGED <<features, input, peeked, fed>>
    /\ UNCHANGED bridgeVars

\* One step of reading the source to its end after the call, when the
\* caller still holds it or got it back unchanged: fill_buf, then consume
\* what it showed (as Read::read_to_end does). A failed read of the
\* underlying reader fails the read; an empty fill is the end of the stream.
SourceRead ==
    /\ spc \in {"sniffed", "dispatched"}
    /\ rd.kind = "source"
    /\ \E o \in InnerReads(src) :
        LET f == fill_buf(src, o)
        IN IF ~f.res.ok
           THEN /\ spc' = "failed"
                /\ src' = f.src
                /\ UNCHANGED sout
           ELSE IF f.res.bytes = <<>>
           THEN /\ spc' = "end"
                /\ src' = f.src
                /\ UNCHANGED sout
           ELSE /\ src' = consume(f.src, Len(f.res.bytes))
                /\ sout' = sout \o f.res.bytes
                /\ UNCHANGED spc
    /\ rd' = Passthrough(src')
    /\ UNCHANGED <<features, input, src0, peeked, guessed, call, fed>>
    /\ UNCHANGED bridgeVars

\* One step of reading a returned decoder to its end: the decoder fills from
\* its source and takes what it is shown. A failed read of the source fails
\* the read; so does a header that turns out bad, or a source that ends
\* before the header is complete; at the end of a good stream the payload
\* has been read.
DecoderRead ==
    /\ spc = "dispatched"
    /\ rd.kind = "decoder"
    /\ \E o \in InnerReads(src) :
        LET f == fill_buf(src, o)
        IN IF ~f.res.ok
           THEN /\ spc' = "failed"
                /\ src' = f.src
                /\ UNCHANGED <<sout, fed>>
           ELSE IF f.res.bytes = <<>>
           THEN /\ src' = f.src
                /\ UNCHANGED fed
                /\ IF HeaderState(rd.codec, fed) = "good"
                   THEN spc' = "end" /\ sout' = Payload(rd.codec, fed)
                   ELSE spc' = "failed" /\ UNCHANGED sout
           ELSE /\ src' = consume(f.src, Len(f.res.bytes))
                /\ fed' = fed \o f.res.bytes
                /\ spc' = IF HeaderState(rd.codec, fed') = "bad"
                          THEN "failed" ELSE spc
                /\ UNCHANGED sout
    /\ rd' = [rd EXCEPT !.src = src']
    /\ UNCHANGED <<features, input, src0, peeked, guessed, call>>
    /\ UNCHANGED bridgeVars

SniffNext ==
    \/ Guess
    \/ AutoDecompress
    \/ DecompressAs
    \/ SourceRead
    \/ DecoderRead

\* ---------------------------------------------------- sniffing: claims
\* The four magic prefixes as the documentation gives them.
DocumentedPrefix(f) ==
    CASE f = "Bzip2" -> <<66, 90, 104>>          \* 42 5A 68
      [] f = "Deflate" -> <<31, 139>>            \* 1F 8B
      [] f = "Lz4" -> <<4, 34, 77, 24>>          \* 04 22 4D 18
      [] f = "Zstd" -> <<40, 181, 47, 253>>      \* 28 B5 2F FD

BeginsWithMagic(bytes) ==
    \E f \in CompressionFormat : IsPrefix(DocumentedPrefix(f), bytes)

\* Every order the four match arms can be written in.
ArmOrders ==
    {p \in [1..4 -> CompressionFormat] : \A i, j \in 1..4 : p[i] = p[j] => i = j}

\* C7: when the bytes the sniffer saw do not begin with a magic prefix (the
\* empty input included), auto_decompress returns the source itself, and
\* reading it yields the input bytes in order: an initial part of the input
\* at every moment, the rest still to come, and all of it at the end.
C7_PassthroughUnrecognized ==
    (call = "auto" /\ peeked.ok /\ ~BeginsWithMagic(peeked.bytes)) =>
        /\ rd.kind = "source"
        /\ sout \o Content(rd.src) = input
        /\ spc = "end" => sout = input

C7_Witness ==
    /\ call = "auto" /\ spc = "end"
    /\ peeked.ok /\ ~BeginsWithMagic(peeked.bytes)
    /\ "bzip2" \in features
    /\ Len(input) >= 3 /\ input[1] = 66 /\ input[2] = 90
    /\ sout = input

\* C8: whatever the sniffer returns, the source's read position is where it
\* was, and reading the source afterwards returns what a fresh source
\* returns: the bytes read since, followed by those still to come, are the
\* content the source had before the call.
C8_SniffDoesNotConsume ==
    call = "guess" =>
        /\ src.consumed = src0.consumed + Len(sout)
        /\ sout \o Content(src) = Content(src0)
        /\ spc = "end" => sout = Content(src0)

C8_Witness ==
    /\ call = "guess" /\ spc = "end"
    /\ guessed = "Bzip2"
    /\ src0.window = <<>>
    /\ Len(sout) >= 4

\* C9 as stated: a call of the sniffer never reads the underlying reader.
C9_SniffNeverReads ==
    [][(spc = "fresh" /\ call' \in {"guess", "auto"}) => src'.reads = src.reads]_vars

\* C9 as amended: a call of the sniffer does not read the underlying reader
\* when bytes are buffered, and then sees exactly the buffered bytes; with an
\* empty buffer it reads at most once.
C9_SniffReadsOnlyWhenBufferEmpty ==
    [][(spc = "fresh" /\ call' \in {"guess", "auto"}) =>
        /\ src'.reads <= src.reads + 1
        /\ src.window # <<>> => (src'.reads = src.reads /\ peeked' = Ok(src.window))]_vars

C9_Witness ==
    /\ call = "guess" /\ sout = <<>> /\ spc = "sniffed"
    /\ src0.window # <<>> /\ src0.inner # <<>>
    /\ src.reads = 0
    /\ guessed = "Deflate"

\* C10: the sniffer returns F exactly when the peeked bytes begin with the
\* whole documented prefix of F; every order of the match arms gives the same
\* result; and a peek that is only a proper initial part of a prefix gives
\* None.
C10_ExactPrefixMatch ==
    (call # "none" /\ peeked.ok) =>
        /\ \A f \in CompressionFormat :
              guessed = f <=> IsPrefix(DocumentedPrefix(f), peeked.bytes)
        /\ \A p \in ArmOrders : MatchArms(p, peeked.bytes) = guessed
        /\ (\E f \in CompressionFormat :
                /\ Len(peeked.bytes) < Len(DocumentedPrefix(f))
                /\ IsPrefix(peeked.bytes, DocumentedPrefix(f)))
            => guessed = None

C10_Witness ==
    /\ call = "guess"
    /\ peeked = Ok(<<4, 34, 77>>)
    /\ guessed = None
    /\ Len(input) >= 4 /\ input[4] = 24

\* The peek is too short to classify: it is a proper initial part (the empty
\* one included) of a documented prefix.
TooShortToClassify(bytes) ==
    \E f \in CompressionFormat :
        /\ Len(bytes) < Len(DocumentedPrefix(f))
        /\ IsPrefix(bytes, DocumentedPrefix(f))

\* C11: when the sniffer's fill_buf fails, or shows too few bytes to
\* classify, the sniffer returns None and auto_decompress returns the source
\* itself: nothing of it has been consumed, and reading it yields the whole
\* input, whatever the input begins with and whatever backends are built in.
C11_PeekFailureIsPassthrough ==
    (call = "auto" /\ (~peeked.ok \/ TooShortToClassify(peeked.bytes))) =>
        /\ guessed = None
        /\ rd.kind = "source"
        /\ rd.src.consumed = src0.consumed + Len(sout)
        /\ sout \o Content(rd.src) = Content(src0)
        /\ spc = "end" => sout = input

C11_Witness ==
    /\ call = "auto" /\ ~peeked.ok
    /\ IsPrefix(<<31, 139>>, input)
    /\ "flate2" \in features
    /\ rd.kind = "source"
    /\ spc = "end" /\ sout = input

\* The codecs that decode format f in a build with the features feat.
Backends(f, feat) ==
    feat \cap (CASE f = "Bzip2" -> {"bzip2"}
                 [] f = "Deflate" -> {"flate2"}
                 [] f = "Lz4" -> {"lz4", "lz4_flex"}
                 [] f = "Zstd" -> {"zstd"})

\* What decoding the whole stream gives: the payload, or an error.
DecoderOutput(codec, stream) ==
    IF IsPrefix(FrameHeader(codec), stream)
    THEN Ok(Payload(codec, stream))
    ELSE Err

\* The returned reader is a decoder of format f that was handed the whole
\* input from its first byte, and reading it to the end gives the decoder's
\* output for the input: nothing for the encoding of the empty payload.
DecodesWholeInput(f) ==
    /\ rd.kind = "decoder"
    /\ rd.codec \in Backends(f, features)
    /\ guessed = f
    /\ fed \o Content(rd.src) = input
    /\ rd.src.consumed = src0.consumed + Len(fed)
    /\ spc = "end" =>
        /\ sout = DecoderOutput(rd.codec, input).bytes
        /\ input = FrameHeader(rd.codec) => sout = <<>>

C13_DispatchNeverFails ==
    [][(spc = "fresh" /\ call' = "as") =>
        /\ spc' = "dispatched"
        /\ rd'.src = src
        /\ fed' = <<>> /\ sout' = <<>>
        /\ IF Backends(guessed', features) = {}
           THEN rd' = Passthrough(src)
           ELSE rd'.kind = "decoder"
                /\ rd'.codec \in Backends(guessed', features)]_vars

\* ------------------------------------------------------- specifications
\* The sniffing variables while the bridge runs, and the other way round.
SniffIdle ==
    /\ features = {}
    /\ input = <<>>
    /\ src = Source(<<>>, <<>>)
    /\ src0 = src
    /\ rd = Passthrough(src)
    /\ peeked = Err
    /\ guessed = None
    /\ call = "none"
    /\ spc = "fresh"
    /\ sout = <<>>
    /\ fed = <<>>

BridgeIdle ==
    /\ BridgeInit
    /\ script = <<>>
    /\ after = "eof"

Init == BridgeInit /\ SniffIdle

Next == BridgeNext

Spec == Init /\ [][Next]_vars

\* The worker is a thread of its own: the scheduler runs it whenever it has a
\* step to take, and every fill of the decoder returns.
FairSpec == Spec /\ WF_vars(WorkerFill) /\ WF_vars(WorkerSend)

\* ... and recv() returns once a message is there to take, or once the
\* channel is empty with its Sender gone.
LiveSpec == FairSpec /\ WF_vars(RecvMessage) /\ WF_vars(RecvClosed)

SniffStart == BridgeIdle /\ SniffInit

SniffSpec == SniffStart /\ [][SniffNext]_vars
====
